---------------------------- MODULE Spec2Model ----------------------------
(***************************************************************************)
(* Warehouse simulator: grid of stack cells, A* pathfinder, bots with a    *)
(* task state machine and kinematic motion.                                *)
(*                                                                         *)
(* Representation                                                          *)
(*   coordinates      <<x, y>>                                             *)
(*   None (coords)    <<>>                                                 *)
(*   Optional[Item]   <<>> or <<item>>                                     *)
(*   find_path result [found |-> BOOLEAN, path |-> Seq(coords)]            *)
(*                                                                         *)
(* A local of the source that is computed once and read several times is   *)
(* bound by a one-element set, { F(x) : x \in {e} }: TLC computes e once,   *)
(* also where it evaluates ENABLED.  The(S) is the element of such a set.  *)
(***************************************************************************)
EXTENDS Integers, Sequences, FiniteSets, TLC

VARIABLES
    pf,      \* the pathfinder query of SpecPath and its result
    cells,   \* Grid.cells: coordinates -> the cell's items, index 1 is the top
    bots,    \* grid.bots: the roster, in update order
    turn,    \* 0 between ticks, else the index of the next bot to update
    dt,      \* the dt of the tick in progress
    plans,   \* the dense searches issued by the last step (history)
    ret,     \* what the last call from outside the bots returned (history)
    call,    \* the last call from outside the bots, with its arguments (history)
    budget   \* the calls from outside the bots still to come

vars == <<pf, cells, bots, turn, dt, plans, ret, call, budget>>

\* no call since the last tick began
NoCall == [op |-> "None", args |-> <<>>]

Call(op, args) == [op |-> op, args |-> args]

None == <<>>

\* the element of a one-element set
The(S) == CHOOSE x \in S : TRUE

Abs(n) == IF n < 0 THEN -n ELSE n

(***************************************************************************)
(* config.py                                                               *)
(***************************************************************************)
\* The source values are GRID_WIDTH = GRID_HEIGHT = 10, INBOUND_CELLS =
\* OUTBOUND_CELLS = 5 and MAX_ITEMS_PER_CELL = 20; the model checks a smaller
\* warehouse.
GRID_WIDTH == 3
GRID_HEIGHT == 2
INBOUND_CELLS == 1
OUTBOUND_CELLS == 1
MAX_ITEMS_PER_CELL == 2

MAX_SPEED_CELLS_PER_SEC == 2
\* ACCEL_TIME = DECEL_TIME = 0.1 s, kept as the rate 1 / 0.1 per second
ACCEL_PER_SEC == 10
DECEL_PER_SEC == 10

(***************************************************************************)
(* Fixed-point arithmetic.  dt is counted in fortieths of a second, speed  *)
(* in halves of a cell per second and positions in eightieths of a cell,   *)
(* so that speed * dt is a whole number of position units and one unit of  *)
(* dt accelerates by one unit of speed.  With dt a multiple of a quarter   *)
(* of a second every value is a binary fraction, which the floats of the   *)
(* source hold exactly; with the smaller dt values the model computes the  *)
(* exact products that the floats of the source round.                     *)
(***************************************************************************)
DtScale == 40
SpeedScale == 2
PosScale == SpeedScale * DtScale

\* the floor of 0.5 cells per second on the final approach
MinFinalSpeed == SpeedScale \div 2
MaxSpeed == MAX_SPEED_CELLS_PER_SEC * SpeedScale

\* (MAX_SPEED / ACCEL_TIME) * dt and (MAX_SPEED / DECEL_TIME) * dt
AccelStep(d) == (MaxSpeed * ACCEL_PER_SEC * d) \div DtScale
DecelStep(d) == (MaxSpeed * DECEL_PER_SEC * d) \div DtScale

\* Python's round() of the position u / PosScale: half rounds to even
Round(u) ==
    LET q == u \div PosScale
        r == u % PosScale
    IN  IF 2 * r < PosScale THEN q
        ELSE IF 2 * r > PosScale THEN q + 1
        ELSE IF q % 2 = 0 THEN q ELSE q + 1

RoundPos(pos) == <<Round(pos[1]), Round(pos[2])>>

\* the position of a cell centre
Centre(c) == <<c[1] * PosScale, c[2] * PosScale>>

(***************************************************************************)
(* item.py, cell.py, grid.py                                               *)
(***************************************************************************)
Item(code, preference) == [code |-> code, preference |-> preference]

\* the range update_preference clamps to, and its largest delta
PreferenceMin == 1
PreferenceMax == 100
PreferenceDelta == 5

\* Item.__init__ with an Optional preference: the items it can construct; a
\* given preference is taken as it is, a missing one is drawn by
\* rng.randint(1, 100) from a generator seeded with the code
NewItem(code, preference) ==
    IF preference # None THEN { Item(code, preference[1]) }
    ELSE { Item(code, p) : p \in PreferenceMin .. PreferenceMax }

\* Item.update_preference, delta being what random.randint(-5, 5) returned
update_preference(item, delta) ==
    LET new_pref == item.preference + delta
        floored  == IF new_pref < PreferenceMin THEN PreferenceMin ELSE new_pref
        clamped  == IF floored > PreferenceMax THEN PreferenceMax ELSE floored
    IN  Item(item.code, clamped)

\* Grid.__init__ without arguments: the configured size
grid_width == GRID_WIDTH
grid_height == GRID_HEIGHT

Coords == (0 .. grid_width - 1) \X (0 .. grid_height - 1)

\* the cell type rule of Grid.__init__
CellType(c) ==
    IF c[1] = 0 /\ c[2] < INBOUND_CELLS THEN "inbound"
    ELSE IF c[1] = grid_width - 1 /\ c[2] < OUTBOUND_CELLS THEN "outbound"
    ELSE "storage"

\* Grid.get_cell: the coordinates of the cell, or None out of bounds
get_cell(x, y) ==
    IF 0 <= x /\ x < grid_width /\ 0 <= y /\ y < grid_height THEN <<x, y>> ELSE None

\* mutant of CanAdd: the capacity test is off by one
CanAdd_off_by_one(c, items) ==
    ~(CellType(c) = "storage" /\ Len(items) > MAX_ITEMS_PER_CELL)

\* Cell.add_item's return value
CanAdd(c, items) ==
    ~(CellType(c) = "storage" /\ Len(items) >= MAX_ITEMS_PER_CELL)

\* mutant of add_item: the item goes under the stack
add_item_bottom(c, items, item) ==
    IF CanAdd(c, items) THEN items \o <<item>> ELSE items

\* Cell.add_item: the items of cell c after the call
add_item(c, items, item) ==
    IF CanAdd(c, items) THEN <<item>> \o items ELSE items

\* Cell.remove_item: the items left; the item returned is items[1] or None
remove_item(items) == IF items = <<>> THEN <<>> ELSE Tail(items)

\* mutant of removed_item: the item at the bottom of the stack
removed_item_bottom(items) == IF items = <<>> THEN None ELSE <<items[Len(items)]>>

\* Cell.remove_item's return value: None, or the item items.pop(0) gives
removed_item(items) == IF items = <<>> THEN None ELSE <<items[1]>>

peek_top(items) == IF items = <<>> THEN <<>> ELSE <<items[1]>>

RECURSIVE NeedsResortFrom(_, _)
\* the loop of needs_resort from the pair (i, i + 1) on
NeedsResortFrom(items, i) ==
    IF i > Len(items) - 1 THEN FALSE
    ELSE IF items[i].preference < items[i + 1].preference THEN TRUE
    ELSE NeedsResortFrom(items, i + 1)

\* mutant of needs_resort: only the top pair is compared
needs_resort_top_pair(items) ==
    Len(items) >= 2 /\ items[1].preference < items[2].preference

\* Cell.needs_resort
needs_resort(items) == NeedsResortFrom(items, 1)

\* mutant of EmptyStorageCandidates: full cells are candidates too
EmptyStorageCandidates_any_fill(cs, exclude) ==
    { c \in DOMAIN cs : CellType(c) = "storage" /\ c \notin exclude }

\* the cells find_empty_storage_cell chooses among
EmptyStorageCandidates(cs, exclude) ==
    { c \in DOMAIN cs : /\ CellType(c) = "storage"
                        /\ Len(cs[c]) < MAX_ITEMS_PER_CELL
                        /\ c \notin exclude }

\* mutant of find_empty_storage_cell: exclude is not looked at
find_empty_storage_cell_ignoring_exclude(cs, exclude) ==
    IF EmptyStorageCandidates(cs, {}) = {} THEN {None}
    ELSE { <<c>> : c \in EmptyStorageCandidates(cs, {}) }

\* Grid.find_empty_storage_cell: what random.choice can return, <<c>> for the
\* cell at c, or None
find_empty_storage_cell(cs, exclude) ==
    IF EmptyStorageCandidates(cs, exclude) = {} THEN {None}
    ELSE { <<c>> : c \in EmptyStorageCandidates(cs, exclude) }

\* the n-th cell of the scan "for col in self.cells: for cell in col", from 0
CellAt(n) == <<n \div grid_height, n % grid_height>>

RECURSIVE FindItemFrom(_, _, _, _, _)
\* the scan of find_item from item k of cell n on, over the cells of types
FindItemFrom(cs, code, types, n, k) ==
    IF n >= grid_width * grid_height THEN None
    ELSE IF CellType(CellAt(n)) \notin types \/ k > Len(cs[CellAt(n)])
    THEN FindItemFrom(cs, code, types, n + 1, 1)
    ELSE IF cs[CellAt(n)][k].code = code THEN <<CellAt(n), cs[CellAt(n)][k]>>
    ELSE FindItemFrom(cs, code, types, n, k + 1)

\* mutant of find_item: outbound cells are searched too
find_item_everywhere(cs, code) ==
    FindItemFrom(cs, code, {"storage", "inbound", "outbound"}, 0, 1)

\* Grid.find_item: <<cell, item>> of the first match, or None for (None, None)
find_item(cs, code) == FindItemFrom(cs, code, {"storage", "inbound"}, 0, 1)

RECURSIVE InsertByPreference(_, _)
\* it placed in the descending sequence s after every item of preference >= its own
InsertByPreference(s, it) ==
    IF s = <<>> THEN <<it>>
    ELSE IF s[1].preference >= it.preference
         THEN <<s[1]>> \o InsertByPreference(Tail(s), it)
         ELSE <<it>> \o s

RECURSIVE SortedByPreference(_)
\* sorted(items, key=preference, reverse=True): descending and stable
SortedByPreference(items) ==
    IF items = <<>> THEN <<>>
    ELSE InsertByPreference(SortedByPreference(SubSeq(items, 1, Len(items) - 1)),
                            items[Len(items)])

\* mutant of sort_items_by_preference: the stack is left as it is
sort_items_by_preference_skipped(items) == items

\* Cell.sort_items_by_preference: list.sort(key=preference, reverse=True)
sort_items_by_preference(items) == SortedByPreference(items)

(***************************************************************************)
(* pathfinder.py                                                           *)
(***************************************************************************)
NoPath == [found |-> FALSE, path |-> <<>>]

\* mutant of Found: the path is not reversed after the walk back
Found_backwards(p) ==
    [found |-> TRUE, path |-> [k \in 1 .. Len(p) |-> p[Len(p) + 1 - k]]]

Found(p) == [found |-> TRUE, path |-> p]

heuristic(a, b) == Abs(a[1] - b[1]) + Abs(a[2] - b[2])

\* mutant of Dirs: the moves include a diagonal
Dirs_diagonal == << <<1, 0>>, <<-1, 0>>, <<0, 1>>, <<0, -1>>, <<1, 1>> >>

\* the neighbour offsets, in the order the loop visits them
Dirs == << <<1, 0>>, <<-1, 0>>, <<0, 1>>, <<0, -1>> >>

\* mutant of HeapMin: the tuple pushed last is popped
HeapMin_newest(open) ==
    CHOOSE e \in open : \A o \in open : e[2] >= o[2]

\* heappop: the least (f_score, count, node) tuple; counts are unique
HeapMin(open) ==
    CHOOSE e \in open : \A o \in open :
        \/ e[1] < o[1]
        \/ e[1] = o[1] /\ e[2] <= o[2]

RECURSIVE ReconstructPath(_, _)
\* the path from the start to current, walking came_from backwards
ReconstructPath(came_from, current) ==
    IF current \in DOMAIN came_from
    THEN Append(ReconstructPath(came_from, came_from[current]), current)
    ELSE <<current>>

\* one pass of the neighbour loop body for offset Dirs[i]
Relax(st, current, goal, blocked, width, height, i) ==
    LET nx == current[1] + Dirs[i][1]
        ny == current[2] + Dirs[i][2]
        neighbor == <<nx, ny>>
        tentative_g == st.g_score[current] + 1
    IN  IF nx < 0 \/ nx >= width \/ ny < 0 \/ ny >= height THEN st
        ELSE IF neighbor \in blocked THEN st
        ELSE IF neighbor \in DOMAIN st.g_score /\ tentative_g >= st.g_score[neighbor] THEN st
        ELSE LET cf == [n \in DOMAIN st.came_from \cup {neighbor} |->
                           IF n = neighbor THEN current ELSE st.came_from[n]]
                 gs == [n \in DOMAIN st.g_score \cup {neighbor} |->
                           IF n = neighbor THEN tentative_g ELSE st.g_score[n]]
                 f  == tentative_g + heuristic(neighbor, goal)
             IN  IF neighbor \in st.open_set_nodes
                 THEN [st EXCEPT !.came_from = cf, !.g_score = gs]
                 ELSE [came_from |-> cf, g_score |-> gs,
                       counter |-> st.counter + 1,
                       open_set |-> st.open_set \cup {<<f, st.counter + 1, neighbor>>},
                       open_set_nodes |-> st.open_set_nodes \cup {neighbor}]

RECURSIVE Expand(_, _, _, _, _, _, _)
\* the neighbour loop: offsets i..4 in order
Expand(st, current, goal, blocked, width, height, i) ==
    IF i > Len(Dirs) THEN st
    ELSE The({ Expand(relaxed, current, goal, blocked, width, height, i + 1) :
                 relaxed \in {Relax(st, current, goal, blocked, width, height, i)} })

RECURSIVE AStarLoop(_, _, _, _, _)
\* the while loop over the open set
AStarLoop(st, goal, blocked, width, height) ==
    IF st.open_set = {} THEN NoPath
    ELSE The({
           LET current == e[3]
               popped == [st EXCEPT !.open_set = @ \ {e},
                                    !.open_set_nodes = @ \ {current}]
           IN  IF current = goal
               THEN Found(ReconstructPath(st.came_from, current))
               ELSE The({ AStarLoop(expanded, goal, blocked, width, height) :
                            expanded \in {Expand(popped, current, goal, blocked,
                                                 width, height, 1)} })
           : e \in {HeapMin(st.open_set)} })

\* find_path once its arguments are known
AStar(start, goal, blocked, width, height) ==
    IF start = goal THEN Found(<<start>>)
    ELSE AStarLoop([open_set |-> {<<heuristic(start, goal), 0, start>>},
                    open_set_nodes |-> {start},
                    came_from |-> <<>>,
                    g_score |-> [n \in {start} |-> 0],
                    counter |-> 0],
                   goal, blocked, width, height)

\* mutant of find_path: the blocked set is dropped
find_path_ignoring_blocked(start, goal, blocked, width, height) ==
    The({ AStar(s, g, {}, width, height) : s \in {start}, g \in {goal} })

find_path(start, goal, blocked, width, height) ==
    The({ AStar(s, g, b, width, height) :
            s \in {start}, g \in {goal}, b \in {blocked} })

(***************************************************************************)
(* bot.py                                                                  *)
(***************************************************************************)
\* mutant of NewBot: the bot is created with its own cell as goal
NewBot_with_goal(start_cell) ==
    [pos |-> Centre(start_cell), goal_coords |-> start_cell, target_path |-> <<>>,
     current_task |-> "None", source_cell |-> None, dest_cell |-> None,
     target_item_code |-> 0, carrying_item |-> <<>>, speed |-> 0]

\* Bot.__init__
NewBot(start_cell) ==
    [pos |-> Centre(start_cell), goal_coords |-> None, target_path |-> <<>>,
     current_task |-> "None", source_cell |-> None, dest_cell |-> None,
     target_item_code |-> 0, carrying_item |-> <<>>, speed |-> 0]

Range(f) == { f[k] : k \in DOMAIN f }

\* mutant of Min: the cap is not applied
Min_uncapped(a, b) == a

Min(a, b) == IF a < b THEN a ELSE b
Max(a, b) == IF a > b THEN a ELSE b
Sign(n) == IF n > 0 THEN 1 ELSE IF n < 0 THEN -1 ELSE 0

\* mutant of Occupied: the other bots are not looked at
Occupied_nobody(bs, i) == {}

\* the rounded positions of the bots other than bot i
Occupied(bs, i) == { RoundPos(bs[j].pos) : j \in DOMAIN bs \ {i} }

\* mutant of Blocked: no cell is an obstacle
Blocked_nobody(bs, i, target) == {}

\* _compute_path_to: blocked after the discard of the target
Blocked(bs, i, target) == Occupied(bs, i) \ {target}

\* _compute_path_to: blocked_with_paths
BlockedWithPaths(bs, i, target) ==
    Blocked(bs, i, target) \cup
        { bs[j].target_path[1] : j \in { k \in DOMAIN bs \ {i} : bs[k].target_path # <<>> } }

\* the first search of _compute_path_to, as issued
DenseSearch(bs, i, target) ==
    [start |-> RoundPos(bs[i].pos), goal |-> target,
     blocked |-> BlockedWithPaths(bs, i, target),
     result |-> find_path(RoundPos(bs[i].pos), target,
                          BlockedWithPaths(bs, i, target), GRID_WIDTH, GRID_HEIGHT)]

\* mutant of PlannedPath: there is no second search
PlannedPath_no_fallback(bs, i, target) == DenseSearch(bs, i, target).result

\* _compute_path_to: the path of the two searches
PlannedPath(bs, i, target) ==
    The({ IF first.found THEN first
          ELSE find_path(RoundPos(bs[i].pos), target, Blocked(bs, i, target),
                         GRID_WIDTH, GRID_HEIGHT)
          : first \in {DenseSearch(bs, i, target).result} })

\* _compute_path_to: the bot once path is known
WithPath(bot, target, path) ==
    LET start == RoundPos(bot.pos)
        at_center == bot.pos = Centre(start)
    IN  [bot EXCEPT
            !.goal_coords = target,
            !.target_path =
                IF ~path.found THEN <<>>
                ELSE IF path.path[1] = start /\ at_center THEN Tail(path.path)
                ELSE path.path]

\* Bot._compute_path_to: bot i afterwards
compute_path_to(bs, i, target) ==
    The({ WithPath(bs[i], target, path) : path \in {PlannedPath(bs, i, target)} })

\* Bot.set_task_pickup
set_task_pickup(bs, i, source, dest, item_code) ==
    compute_path_to(
        [bs EXCEPT ![i] = [@ EXCEPT !.current_task = "delivery",
                                    !.source_cell = source,
                                    !.dest_cell = dest,
                                    !.target_item_code = item_code,
                                    !.carrying_item = <<>>]],
        i, source)

\* mutant of set_task_resort: dest_cell and carrying_item are left alone
set_task_resort_keeps_delivery(bs, i, cell) ==
    compute_path_to(
        [bs EXCEPT ![i] = [@ EXCEPT !.current_task = "resort",
                                    !.source_cell = cell]],
        i, cell)

\* Bot.set_task_resort
set_task_resort(bs, i, cell) ==
    compute_path_to(
        [bs EXCEPT ![i] = [@ EXCEPT !.current_task = "resort",
                                    !.source_cell = cell,
                                    !.dest_cell = None,
                                    !.carrying_item = <<>>]],
        i, cell)

\* what one call leaves behind: the bot, the cells, the searches issued
Outcome(bot, cs, ps) == [bot |-> bot, cells |-> cs, plans |-> ps]

\* self._compute_path_to(target) inside update: the bot and the searches
Replanned(bs, i, target, ps) ==
    [bot |-> compute_path_to(bs, i, target),
     plans |-> ps \cup {DenseSearch(bs, i, target)}]

\* mutant of PickIndex: the top item is taken whatever its code
PickIndex_top(items, code) == IF items = <<>> THEN 0 ELSE 1

\* mutant of PickIndex: the scan does not stop at the first match
PickIndex_last_match(items, code) ==
    IF code # 0
    THEN IF \E k \in 1 .. Len(items) : items[k].code = code
         THEN CHOOSE k \in 1 .. Len(items) :
                 /\ items[k].code = code
                 /\ \A m \in k + 1 .. Len(items) : items[m].code # code
         ELSE 0
    ELSE IF items = <<>> THEN 0 ELSE 1

\* the index of the item a delivery bot picks from items, 0 if none
PickIndex(items, code) ==
    IF code # 0
    THEN IF \E k \in 1 .. Len(items) : items[k].code = code
         THEN CHOOSE k \in 1 .. Len(items) :
                 /\ items[k].code = code
                 /\ \A m \in 1 .. k - 1 : items[m].code # code
         ELSE 0
    ELSE IF items = <<>> THEN 0 ELSE 1

\* mutant of RemoveAt: the item stays in the list
RemoveAt_keeps(items, k) == items

\* list.pop(k - 1): items without its k-th element
RemoveAt(items, k) == SubSeq(items, 1, k - 1) \o SubSeq(items, k + 1, Len(items))

RECURSIVE ScratchMoves(_, _, _)
\* the while loop of the resort branch: every way the random choices can go;
\* the cells and temp_cells when the loop ends
ScratchMoves(cs, cell, temp_cells) ==
    IF cs[cell] = <<>> THEN {[cells |-> cs, temp_cells |-> temp_cells]}
    ELSE LET candidates == EmptyStorageCandidates(cs, Range(temp_cells) \cup {cell})
         IN  IF candidates = {} THEN {[cells |-> cs, temp_cells |-> temp_cells]}
             ELSE UNION { ScratchMoves(
                              [cs EXCEPT ![t] = add_item(t, cs[t], cs[cell][1]),
                                         ![cell] = remove_item(cs[cell])],
                              cell, Append(temp_cells, t)) : t \in candidates }

RECURSIVE AllItems(_, _)
\* all_items: the items of the temp cells, in temp_cells order
AllItems(cs, temp_cells) ==
    IF temp_cells = <<>> THEN <<>>
    ELSE cs[temp_cells[1]] \o AllItems(cs, Tail(temp_cells))

RECURSIVE PushAll(_, _, _)
\* for it in sorted_items: cell.add_item(it)
PushAll(c, items, sorted_items) ==
    IF sorted_items = <<>> THEN items
    ELSE PushAll(c, add_item(c, items, sorted_items[1]), Tail(sorted_items))

\* the resort branch of _on_reach_destination: the possible cells afterwards
ResortOutcomes(cs, cell) ==
    { LET all_items == AllItems(m.cells, m.temp_cells)
          emptied == [c \in DOMAIN cs |->
                         IF c \in Range(m.temp_cells) THEN <<>> ELSE m.cells[c]]
      IN  [emptied EXCEPT ![cell] = PushAll(cell, @, SortedByPreference(all_items))]
      : m \in ScratchMoves(cs, cell, <<>>) }

\* Bot._on_reach_destination for bot i
ReachOutcomes(bs, cs, i, ps) ==
    LET b == bs[i]
        Cleared(bot) == [bot EXCEPT !.current_task = "None", !.source_cell = None,
                                    !.dest_cell = None, !.goal_coords = None]
    IN  IF b.current_task = "delivery" THEN
            LET atSource == b.carrying_item = <<>> /\ b.source_cell # None
                cell == get_cell(b.source_cell[1], b.source_cell[2])
                k == IF atSource /\ cell # None
                     THEN PickIndex(cs[cell], b.target_item_code) ELSE 0
                b1 == IF k = 0 THEN b ELSE [b EXCEPT !.carrying_item = <<cs[cell][k]>>]
                cs1 == IF k = 0 THEN cs ELSE [cs EXCEPT ![cell] = RemoveAt(@, k)]
                bs1 == [bs EXCEPT ![i] = b1]
            IN  IF atSource /\ b.dest_cell # None
                THEN { Outcome(r.bot, cs1, r.plans) :
                         r \in {Replanned(bs1, i, b.dest_cell, ps)} }
                ELSE IF b1.carrying_item # <<>> /\ b1.dest_cell # None
                THEN {Outcome(
                        Cleared([b1 EXCEPT !.carrying_item = <<>>,
                                           !.target_item_code = 0]),
                        [cs1 EXCEPT ![b1.dest_cell] =
                            add_item(b1.dest_cell, @, b1.carrying_item[1])],
                        ps)}
                ELSE {Outcome(b1, cs1, ps)}
        ELSE IF b.current_task = "resort" THEN
            IF b.source_cell # None
            THEN { Outcome(Cleared(b), cs2, ps) :
                       cs2 \in ResortOutcomes(cs, b.source_cell) }
            ELSE {Outcome(b, cs, ps)}
        ELSE {Outcome(b, cs, ps)}

\* the spacing of the float values a position takes, in units of 1 /
\* PosScale cell: the sum of pos and a step that falls between two values
\* is rounded to one of them
PosUlp == 2

\* the float nearest to u, the one with the even mantissa on a tie
FloatRound(u) ==
    LET q == u \div PosUlp
        r == u % PosUlp
    IN  IF 2 * r < PosUlp THEN q * PosUlp
        ELSE IF 2 * r > PosUlp THEN (q + 1) * PosUlp
        ELSE IF q % 2 = 0 THEN q * PosUlp
        ELSE (q + 1) * PosUlp

\* mutant of Snaps: the bot always moves by the whole step
Snaps_never(step, distance) == FALSE

\* the step reaches (or overshoots) the next cell centre
Snaps(step, distance) == step >= distance /\ distance # 0

\* Bot.update from the movement on: bot i has a free next waypoint
MoveOutcomes(bs, cs, i, d, ps) ==
    LET b == bs[i]
        next == Centre(b.target_path[1])
        dx == next[1] - b.pos[1]
        dy == next[2] - b.pos[2]
        \* math.hypot(dx, dy); every move is along one axis (AxisAligned)
        distance == Abs(dx) + Abs(dy)
        accelerated == IF b.speed < MaxSpeed
                       THEN Min(b.speed + AccelStep(d), MaxSpeed)
                       ELSE b.speed
        speed == IF Len(b.target_path) = 1
                 THEN Max(accelerated - DecelStep(d), MinFinalSpeed)
                 ELSE accelerated
        step == speed * d
    IN  IF Snaps(step, distance)
        THEN LET b2 == [b EXCEPT !.speed = speed, !.pos = next,
                                 !.target_path = Tail(@)]
             IN  IF b2.target_path = <<>>
                 THEN ReachOutcomes([bs EXCEPT ![i] = b2], cs, i, ps)
                 ELSE {Outcome(b2, cs, ps)}
        ELSE {Outcome([b EXCEPT !.speed = speed,
                                !.pos = IF distance # 0
                                        THEN <<FloatRound(b.pos[1] + Sign(dx) * step),
                                               FloatRound(b.pos[2] + Sign(dy) * step)>>
                                        ELSE @],
                      cs, ps)}

\* mutant of AvoidOrMove: the bot moves whether or not the waypoint is free
AvoidOrMove_unchecked(bs, cs, i, d, r) ==
    IF r.bot.target_path = <<>> THEN {Outcome(r.bot, cs, r.plans)}
    ELSE MoveOutcomes([bs EXCEPT ![i] = r.bot], cs, i, d, r.plans)

\* Bot.update after the replan of a lost path: r.bot is the bot by then
AvoidOrMove(bs, cs, i, d, r) ==
    IF r.bot.target_path = <<>> THEN {Outcome(r.bot, cs, r.plans)}
    ELSE IF r.bot.target_path[1] \in Occupied(bs, i)
    THEN { Outcome(again.bot, cs, again.plans) :
             again \in {Replanned([bs EXCEPT ![i] = r.bot], i,
                                  r.bot.goal_coords, r.plans)} }
    ELSE MoveOutcomes([bs EXCEPT ![i] = r.bot], cs, i, d, r.plans)

\* mutant of UpdateOutcomes: a lost path is not planned again
UpdateOutcomes_no_retry(bs, cs, i, d) ==
    AvoidOrMove(bs, cs, i, d, [bot |-> bs[i], plans |-> {}])

\* Bot.update for bot i with time step d
UpdateOutcomes(bs, cs, i, d) ==
    LET lost == bs[i].target_path = <<>> /\ bs[i].goal_coords # None
    IN  UNION { AvoidOrMove(bs, cs, i, d, r) :
                  r \in {IF lost THEN Replanned(bs, i, bs[i].goal_coords, {})
                         ELSE [bot |-> bs[i], plans |-> {}]} }

(***************************************************************************)
(* Pathfinder queries: Init draws (start, goal, blocked, grid_size) and    *)
(* Search applies find_path.                                               *)
(***************************************************************************)
MaxDim == 3
MaxBlocked == 3

GridCells(w, h) == (0 .. w - 1) \X (0 .. h - 1)

\* no query in progress
PfIdle == [start |-> <<0, 0>>, goal |-> <<0, 0>>, blocked |-> {}, width |-> 1,
           height |-> 1, done |-> TRUE, result |-> NoPath]

EmptyCells == [c \in Coords |-> <<>>]

InitPath ==
    /\ cells = EmptyCells /\ bots = <<>> /\ turn = 0 /\ dt = 0 /\ plans = {}
    /\ ret = "None" /\ call = NoCall /\ budget = 0
    /\ \E w \in 1 .. MaxDim, h \in 1 .. MaxDim :
      \E b \in SUBSET GridCells(w, h) :
        /\ Cardinality(b) <= MaxBlocked
        /\ \E s \in GridCells(w, h), g \in GridCells(w, h) :
             pf = [start |-> s, goal |-> g, blocked |-> b, width |-> w, height |-> h,
                   done |-> FALSE, result |-> NoPath]

Search ==
    /\ ~pf.done
    /\ pf' = [pf EXCEPT !.done = TRUE,
                        !.result = find_path(pf.start, pf.goal, pf.blocked,
                                             pf.width, pf.height)]
    /\ UNCHANGED <<cells, bots, turn, dt, plans, ret, call, budget>>

NextPath == Search

SpecPath == InitPath /\ [][NextPath]_vars

(* Searches on a grid wide enough for a detour on which the g-score of a   *)
(* node is improved while the node waits in the open set.                   *)
WideWidth == 5
WideHeight == 3
FewBlocked == 2

InitDetour ==
    /\ cells = EmptyCells /\ bots = <<>> /\ turn = 0 /\ dt = 0 /\ plans = {}
    /\ ret = "None" /\ call = NoCall /\ budget = 0
    /\ \E b \in SUBSET GridCells(WideWidth, WideHeight) :
        /\ Cardinality(b) <= FewBlocked
        /\ \E s \in GridCells(WideWidth, WideHeight),
              g \in GridCells(WideWidth, WideHeight) :
             pf = [start |-> s, goal |-> g, blocked |-> b,
                   width |-> WideWidth, height |-> WideHeight,
                   done |-> FALSE, result |-> NoPath]

NextDetour == Search

SpecDetour == InitDetour /\ [][NextDetour]_vars

(***************************************************************************)
(* The simulation: main.py's loop.  Between ticks (turn = 0) the           *)
(* dispatcher hands tasks to idle bots and items arrive; a tick measures   *)
(* dt and updates every bot of the roster in order.                        *)
(***************************************************************************)
\* dt = clock.tick(60) / 1000.0
StartTick(d) ==
    /\ turn = 0 /\ bots # <<>>
    /\ turn' = 1 /\ dt' = d /\ plans' = {} /\ call' = NoCall
    /\ UNCHANGED <<pf, cells, bots, ret, budget>>

\* b.update(dt, grid) for the bot whose turn it is
UpdateBot(i) ==
    /\ turn = i
    /\ \E o \in UpdateOutcomes(bots, cells, i, dt) :
          /\ bots' = [bots EXCEPT ![i] = o.bot]
          /\ cells' = o.cells
          /\ plans' = o.plans
    /\ turn' = IF i = Len(bots) THEN 0 ELSE i + 1
    /\ dt' = IF i = Len(bots) THEN 0 ELSE dt
    /\ UNCHANGED <<pf, ret, call, budget>>

\* bot.set_task_pickup(src, dst, code) on an idle bot
SetTaskPickup(i, source, dest, code) ==
    /\ turn = 0 /\ budget > 0
    /\ bots[i].current_task = "None"
    /\ bots' = [bots EXCEPT ![i] = set_task_pickup(bots, i, source, dest, code)]
    /\ plans' = {DenseSearch(bots, i, source)}
    /\ ret' = "None"
    /\ call' = Call("set_task_pickup", <<i, source, dest, code>>)
    /\ budget' = budget - 1
    /\ UNCHANGED <<pf, cells, turn, dt>>

\* bot.set_task_resort(cell) on an idle bot
SetTaskResort(i, cell) ==
    /\ turn = 0 /\ budget > 0
    /\ bots[i].current_task = "None"
    /\ bots' = [bots EXCEPT ![i] = set_task_resort(bots, i, cell)]
    /\ plans' = {DenseSearch(bots, i, cell)}
    /\ ret' = "None"
    /\ call' = Call("set_task_resort", <<i, cell>>)
    /\ budget' = budget - 1
    /\ UNCHANGED <<pf, cells, turn, dt>>

\* bot.set_task_pickup(src, dst, code) whatever the bot is doing
CallSetTaskPickup(i, source, dest, code) ==
    /\ turn = 0 /\ budget > 0
    /\ bots' = [bots EXCEPT ![i] = set_task_pickup(bots, i, source, dest, code)]
    /\ plans' = {DenseSearch(bots, i, source)}
    /\ ret' = "None"
    /\ call' = Call("set_task_pickup", <<i, source, dest, code>>)
    /\ budget' = budget - 1
    /\ UNCHANGED <<pf, cells, turn, dt>>

\* bot.set_task_resort(cell) whatever the bot is doing
CallSetTaskResort(i, cell) ==
    /\ turn = 0 /\ budget > 0
    /\ bots' = [bots EXCEPT ![i] = set_task_resort(bots, i, cell)]
    /\ plans' = {DenseSearch(bots, i, cell)}
    /\ ret' = "None"
    /\ call' = Call("set_task_resort", <<i, cell>>)
    /\ budget' = budget - 1
    /\ UNCHANGED <<pf, cells, turn, dt>>

\* cell.add_item(item) from outside the bots (inbound arrivals, the UI)
AddItem(c, item) ==
    /\ turn = 0 /\ budget > 0
    /\ cells' = [cells EXCEPT ![c] = add_item(c, @, item)]
    /\ ret' = IF CanAdd(c, cells[c]) THEN "True" ELSE "False"
    /\ plans' = {}
    /\ call' = Call("add_item", <<c, item>>)
    /\ budget' = budget - 1
    /\ UNCHANGED <<pf, bots, turn, dt>>

\* cell.remove_item() from outside the bots
RemoveItem(c) ==
    /\ turn = 0 /\ budget > 0
    /\ cells' = [cells EXCEPT ![c] = remove_item(@)]
    /\ ret' = "None"
    /\ plans' = {}
    /\ call' = Call("remove_item", <<c>>)
    /\ budget' = budget - 1
    /\ UNCHANGED <<pf, bots, turn, dt>>

\* cell.sort_items_by_preference()
SortItems(c) ==
    /\ turn = 0 /\ budget > 0
    /\ cells' = [cells EXCEPT ![c] = sort_items_by_preference(@)]
    /\ ret' = "None"
    /\ plans' = {}
    /\ call' = Call("sort_items_by_preference", <<c>>)
    /\ budget' = budget - 1
    /\ UNCHANGED <<pf, bots, turn, dt>>

\* cell.needs_resort()
NeedsResort(c) ==
    /\ turn = 0 /\ budget > 0
    /\ ret' = IF needs_resort(cells[c]) THEN "True" ELSE "False"
    /\ plans' = {}
    /\ call' = Call("needs_resort", <<c>>)
    /\ budget' = budget - 1
    /\ UNCHANGED <<pf, cells, bots, turn, dt>>

\* grid.find_empty_storage_cell(exclude)
FindEmptyStorageCell(exclude) ==
    /\ turn = 0 /\ budget > 0
    /\ ret' \in find_empty_storage_cell(cells, exclude)
    /\ call' = Call("find_empty_storage_cell", <<exclude>>)
    /\ plans' = {}
    /\ budget' = budget - 1
    /\ UNCHANGED <<pf, cells, bots, turn, dt>>

\* grid.find_item(code)
FindItem(code) ==
    /\ turn = 0 /\ budget > 0
    /\ ret' = find_item(cells, code)
    /\ call' = Call("find_item", <<code>>)
    /\ plans' = {}
    /\ budget' = budget - 1
    /\ UNCHANGED <<pf, cells, bots, turn, dt>>

(***************************************************************************)
(* Specifications of the simulation                                        *)
(***************************************************************************)
MaxPref == 2

\* dt values, in units of 1 / DtScale seconds: 0.25 s and 0.5 s leave a bot
\* between cell centres, 2 s carries it a whole cell even at the final
\* approach speed
FineDts == {DtScale \div 4, DtScale \div 2}
CoarseDts == {2 * DtScale}

\* item codes are positive numbers (distinct non-empty strings); 0 is the
\* empty code, which set_task_pickup treats like None
CodeOf(c, k) == (c[1] * grid_height + c[2]) * (MAX_ITEMS_PER_CELL + 1) + k

Tick(dts) ==
    \/ \E d \in dts : StartTick(d)
    \/ \E i \in DOMAIN bots : UpdateBot(i)

(* One bot and one item: the delivery round trip. *)
InitLive ==
    /\ pf = PfIdle /\ turn = 0 /\ dt = 0 /\ plans = {} /\ ret = "None" /\ call = NoCall
    /\ budget = 1
    /\ \E c \in Coords : bots = <<NewBot(c)>>
    /\ \E c \in Coords :
          cells = [EmptyCells EXCEPT ![c] = <<Item(CodeOf(c, 1), 1)>>]

NextLive ==
    \/ \E s \in Coords, d \in Coords : SetTaskPickup(1, s, d, 0)
    \/ Tick(FineDts)

\* main.py's loop runs a tick after every pass of the dispatcher
SpecLive == InitLive /\ [][NextLive]_vars /\ WF_vars(Tick(FineDts))

(* One bot in a stocked warehouse: calls from outside and the arrivals they *)
(* lead to.  A tick of CoarseDts carries the bot one waypoint.              *)
MaxCalls == 1

\* main(): the first bot stands on (0, INBOUND_CELLS), or (0, 0) without it
FirstCell ==
    IF get_cell(0, INBOUND_CELLS) # None THEN get_cell(0, INBOUND_CELLS)
    ELSE get_cell(0, 0)

StorageCells == { c \in Coords : CellType(c) = "storage" }

\* the preferences, top first, of the stacks a storage cell can hold
Shapes == UNION { [1 .. m -> 1 .. MaxPref] : m \in 0 .. MAX_ITEMS_PER_CELL }

\* the code of an item that arrives from outside
NewCode == Cardinality(Coords) * (MAX_ITEMS_PER_CELL + 1) + budget

InitStore ==
    /\ pf = PfIdle /\ turn = 0 /\ dt = 0 /\ plans = {} /\ ret = "None" /\ call = NoCall
    /\ budget = MaxCalls
    /\ bots = <<NewBot(FirstCell)>>
    /\ \E shape \in [StorageCells -> Shapes] :
          cells = [c \in Coords |->
                     IF c \in StorageCells
                     THEN [k \in DOMAIN shape[c] |-> Item(CodeOf(c, k), shape[c][k])]
                     ELSE <<>>]

\* the dispatcher sends bot 1 for the item of a code, to the outbound cell
Fetch ==
    \E s \in Coords : \E k \in DOMAIN cells[s] :
        SetTaskPickup(1, s, <<grid_width - 1, 0>>, cells[s][k].code)

\* bot 1 is sent to move the top item of a cell to a storage cell
Stow ==
    \E s \in Coords, d \in StorageCells :
        cells[s] # <<>> /\ SetTaskPickup(1, s, d, 0)

NextStore ==
    \/ \E c \in Coords, p \in 1 .. MaxPref : AddItem(c, Item(NewCode, p))
    \/ \E c \in Coords : RemoveItem(c)
    \/ \E c \in Coords : SetTaskResort(1, c)
    \/ Fetch
    \/ Stow
    \/ Tick(CoarseDts)

SpecStore == InitStore /\ [][NextStore]_vars

(* One stack of any preferences in any cell that can hold it, and calls of  *)
(* the stack's own operations.                                              *)
MaxStack == 4

InitSort ==
    /\ pf = PfIdle /\ turn = 0 /\ dt = 0 /\ plans = {} /\ ret = "None" /\ call = NoCall
    /\ budget = 2
    /\ bots = <<NewBot(FirstCell)>>
    /\ \E c \in Coords, m \in 0 .. MaxStack :
          /\ CellType(c) = "storage" => m <= MAX_ITEMS_PER_CELL
          /\ \E shape \in [1 .. m -> 1 .. MaxPref] :
                cells = [EmptyCells EXCEPT
                           ![c] = [k \in 1 .. m |-> Item(CodeOf(c, k), shape[k])]]

NextSort ==
    \/ \E c \in Coords : SortItems(c)
    \/ \E c \in Coords : NeedsResort(c)

SpecSort == InitSort /\ [][NextSort]_vars

(* One stack in any cell that can hold it, and two calls of add_item and   *)
(* remove_item on any cells; ret holds what the call returned, as a tuple. *)
CellAddItem(c, item) ==
    /\ turn = 0 /\ budget > 0
    /\ cells' = [cells EXCEPT ![c] = add_item(c, @, item)]
    /\ ret' = <<CanAdd(c, cells[c])>>
    /\ plans' = {}
    /\ call' = Call("add_item", <<c, item>>)
    /\ budget' = budget - 1
    /\ UNCHANGED <<pf, bots, turn, dt>>

CellRemoveItem(c) ==
    /\ turn = 0 /\ budget > 0
    /\ cells' = [cells EXCEPT ![c] = remove_item(@)]
    /\ ret' = removed_item(cells[c])
    /\ plans' = {}
    /\ call' = Call("remove_item", <<c>>)
    /\ budget' = budget - 1
    /\ UNCHANGED <<pf, bots, turn, dt>>

InitStack ==
    /\ pf = PfIdle /\ turn = 0 /\ dt = 0 /\ plans = {} /\ ret = None /\ call = NoCall
    /\ budget = 2
    /\ bots = <<NewBot(FirstCell)>>
    /\ \E c \in Coords, m \in 0 .. MaxStack :
          /\ CellType(c) = "storage" => m <= MAX_ITEMS_PER_CELL
          /\ cells = [EmptyCells EXCEPT ![c] = [k \in 1 .. m |-> Item(CodeOf(c, k), 1)]]

NextStack ==
    \/ \E c \in Coords, p \in 1 .. MaxPref : CellAddItem(c, Item(NewCode, p))
    \/ \E c \in Coords : CellRemoveItem(c)

SpecStack == InitStack /\ [][NextStack]_vars

(* One item: it is constructed, with a preference or without, and its      *)
(* preference then evolves.                                                 *)
MaxUpdates == 2
MaxExcess == 6

\* the preferences a caller may hand to the constructor here
ExplicitPreferences == (PreferenceMin - MaxExcess) .. (PreferenceMax + MaxExcess)

\* Item(code) and Item(code, preference)
Construct(code, preference) ==
    /\ ret = None /\ budget > 0
    /\ ret' \in { <<it>> : it \in NewItem(code, preference) }
    /\ call' = Call("Item", <<code, preference>>)
    /\ budget' = budget - 1
    /\ UNCHANGED <<pf, cells, bots, turn, dt, plans>>

\* item.update_preference()
UpdatePreference(delta) ==
    /\ ret # None /\ budget > 0
    /\ ret' = <<update_preference(ret[1], delta)>>
    /\ call' = Call("update_preference", <<delta>>)
    /\ budget' = budget - 1
    /\ UNCHANGED <<pf, cells, bots, turn, dt, plans>>

InitItem ==
    /\ pf = PfIdle /\ turn = 0 /\ dt = 0 /\ plans = {} /\ ret = None
    /\ call = NoCall /\ budget = MaxUpdates + 1
    /\ bots = <<NewBot(FirstCell)>>
    /\ cells = EmptyCells

NextItem ==
    \/ \E p \in {None} \cup { <<e>> : e \in ExplicitPreferences } : Construct(1, p)
    \/ \E delta \in -PreferenceDelta .. PreferenceDelta : UpdatePreference(delta)

SpecItem == InitItem /\ [][NextItem]_vars

(* A warehouse in which every cell holds none, one or both of two item     *)
(* codes, and one query of the grid.                                        *)
MaxItemCode == 2

\* the stacks of distinct codes a cell starts with here
CodeStacks ==
    { s \in UNION { [1 .. m -> 1 .. MaxItemCode] : m \in 0 .. MAX_ITEMS_PER_CELL } :
        \A i \in DOMAIN s, j \in DOMAIN s : i < j => s[i] < s[j] }

InitGrid ==
    /\ pf = PfIdle /\ turn = 0 /\ dt = 0 /\ plans = {} /\ ret = None
    /\ call = NoCall /\ budget = 1
    /\ bots = <<NewBot(FirstCell)>>
    /\ \E codes \in [Coords -> CodeStacks] :
          cells = [c \in Coords |->
                     [k \in DOMAIN codes[c] |-> Item(codes[c][k], 1)]]

NextGrid ==
    \/ \E exclude \in SUBSET StorageCells : FindEmptyStorageCell(exclude)
    \/ \E code \in 1 .. MaxItemCode + 1 : FindItem(code)

SpecGrid == InitGrid /\ [][NextGrid]_vars

(* One bot and one stack of items whose codes may repeat; the bot is sent   *)
(* to fetch from any cell, for any code or for none.                        *)
InitPickup ==
    /\ pf = PfIdle /\ turn = 0 /\ dt = 0 /\ plans = {} /\ ret = "None" /\ call = NoCall
    /\ budget = 1
    /\ bots = <<NewBot(FirstCell)>>
    /\ \E c \in Coords, m \in 0 .. MaxStack :
          /\ CellType(c) = "storage" => m <= MAX_ITEMS_PER_CELL
          /\ \E codes \in [1 .. m -> 1 .. MaxItemCode] :
                cells = [EmptyCells EXCEPT
                           ![c] = [k \in 1 .. m |-> Item(codes[k], k)]]

NextPickup ==
    \/ \E s \in Coords, d \in Coords, code \in 0 .. MaxItemCode + 1 :
          SetTaskPickup(1, s, d, code)
    \/ Tick(CoarseDts)

SpecPickup == InitPickup /\ [][NextPickup]_vars

(* One bot and one item; the bot is given a task, and another at any later  *)
(* moment, idle or not.                                                     *)
InitTask ==
    /\ pf = PfIdle /\ turn = 0 /\ dt = 0 /\ plans = {} /\ ret = "None" /\ call = NoCall
    /\ budget = 2
    /\ bots = <<NewBot(FirstCell)>>
    /\ \E c \in Coords :
          cells = [EmptyCells EXCEPT ![c] = <<Item(CodeOf(c, 1), 1)>>]

NextTask ==
    \/ \E s \in Coords, d \in Coords :
         \E code \in {0} \cup { it.code : it \in Range(cells[s]) } :
            CallSetTaskPickup(1, s, d, code)
    \/ \E c \in Coords : CallSetTaskResort(1, c)
    \/ Tick(FineDts \cup CoarseDts)

SpecTask == InitTask /\ [][NextTask]_vars

(* One bot sent to a cell past a second, idle bot, in frames short enough   *)
(* to show the acceleration ramp; a frame may also take no time at all.     *)
TinyDts == {0, 1, 3}

InitKin ==
    /\ pf = PfIdle /\ turn = 0 /\ dt = 0 /\ plans = {} /\ ret = "None" /\ call = NoCall
    /\ budget = 1
    /\ cells = EmptyCells
    /\ \E a \in Coords, b \in Coords :
          a # b /\ bots = <<NewBot(a), NewBot(b)>>

NextKin ==
    \/ \E c \in Coords : SetTaskResort(1, c)
    \/ Tick(TinyDts)

SpecKin == InitKin /\ [][NextKin]_vars

(* Three bots on distinct cells of an empty warehouse: two of them can     *)
(* shut the third in a corner.  Each frame carries a bot one waypoint.      *)
InitJam ==
    /\ pf = PfIdle /\ turn = 0 /\ dt = 0 /\ plans = {} /\ ret = "None" /\ call = NoCall
    /\ budget = 2
    /\ cells = EmptyCells
    /\ \E a \in Coords, b \in Coords, c \in Coords :
          /\ a # b /\ a # c /\ b # c
          /\ bots = <<NewBot(a), NewBot(b), NewBot(c)>>

NextJam ==
    \/ \E i \in 1 .. 3, c \in Coords : SetTaskResort(i, c)
    \/ Tick(CoarseDts)

SpecJam == InitJam /\ [][NextJam]_vars

(* One bot sent to any cell and frames of one fixed length, short enough   *)
(* for the float spacing of the positions to show; the loop keeps running.  *)
ApproachDts == {3}

InitApproach ==
    /\ pf = PfIdle /\ turn = 0 /\ dt = 0 /\ plans = {} /\ ret = "None" /\ call = NoCall
    /\ budget = 1
    /\ cells = EmptyCells
    /\ \E a \in Coords : bots = <<NewBot(a)>>

NextApproach ==
    \/ \E c \in Coords : SetTaskResort(1, c)
    \/ Tick(ApproachDts)

SpecApproach ==
    InitApproach /\ [][NextApproach]_vars /\ WF_vars(Tick(ApproachDts))

(* One bot in an empty warehouse is sent to fetch from any cell while an   *)
(* item arrives in an inbound cell, before the call or at any moment after. *)
InboundCells == { c \in Coords : CellType(c) = "inbound" }

InitInbound ==
    /\ pf = PfIdle /\ turn = 0 /\ dt = 0 /\ plans = {} /\ ret = "None" /\ call = NoCall
    /\ budget = 2
    /\ cells = EmptyCells
    /\ bots = <<NewBot(FirstCell)>>

NextInbound ==
    \/ \E s \in Coords, d \in Coords : SetTaskPickup(1, s, d, 0)
    \/ \E c \in InboundCells : AddItem(c, Item(NewCode, 1))
    \/ Tick(CoarseDts)

SpecInbound == InitInbound /\ [][NextInbound]_vars

(* Two bots on distinct cells and one item: the first bot is sent on a    *)
(* delivery, the second has no task and stays where it is; the loop keeps  *)
(* running.                                                                *)
InitPark ==
    /\ pf = PfIdle /\ turn = 0 /\ dt = 0 /\ plans = {} /\ ret = "None" /\ call = NoCall
    /\ budget = 1
    /\ \E a \in Coords, b \in Coords :
          a # b /\ bots = <<NewBot(a), NewBot(b)>>
    /\ \E c \in Coords :
          cells = [EmptyCells EXCEPT ![c] = <<Item(CodeOf(c, 1), 1)>>]

NextPark ==
    \/ \E s \in Coords, d \in Coords : SetTaskPickup(1, s, d, 0)
    \/ Tick(FineDts)

SpecPark == InitPark /\ [][NextPark]_vars /\ WF_vars(Tick(FineDts))

(* Grid(width, height) with any width and height, smaller or larger than  *)
(* the configured size, empty; two bots on distinct cells of it, the first *)
(* is sent to any cell of it.                                              *)
MaxGridWidth == 4
MaxGridHeight == 3

InitSized ==
    /\ pf = PfIdle /\ turn = 0 /\ dt = 0 /\ plans = {} /\ ret = "None" /\ call = NoCall
    /\ budget = 1
    /\ \E w \in 1 .. MaxGridWidth, h \in 1 .. MaxGridHeight :
          /\ cells = [c \in GridCells(w, h) |-> <<>>]
          /\ \E a \in GridCells(w, h), b \in GridCells(w, h) :
                a # b /\ bots = <<NewBot(a), NewBot(b)>>

NextSized ==
    \/ \E c \in DOMAIN cells : SetTaskResort(1, c)
    \/ Tick(CoarseDts)

SpecSized == InitSized /\ [][NextSized]_vars

(* Two bots on distinct cells of an empty warehouse, each sent to a cell.   *)
InitMotion ==
    /\ pf = PfIdle /\ turn = 0 /\ dt = 0 /\ plans = {} /\ ret = "None" /\ call = NoCall
    /\ budget = 2
    /\ cells = EmptyCells
    /\ \E a \in Coords, b \in Coords :
          a # b /\ bots = <<NewBot(a), NewBot(b)>>

NextMotion ==
    \/ \E i \in 1 .. 2, c \in Coords : SetTaskResort(i, c)
    \/ Tick(FineDts)

SpecMotion == InitMotion /\ [][NextMotion]_vars

(***************************************************************************)
(* Properties of find_path                                                 *)
(***************************************************************************)
\* consecutive nodes differ by exactly one unit in exactly one axis
Contiguous(p) ==
    \A i \in 1 .. Len(p) - 1 : heuristic(p[i], p[i + 1]) = 1

\* the in-bounds 4-neighbours of c that are not blocked
FreeNeighbours(c, blocked, w, h) ==
    { n \in GridCells(w, h) : heuristic(c, n) = 1 /\ n \notin blocked }

RECURSIVE Flood(_, _, _, _)
\* the least marking that contains mark and is closed under FreeNeighbours
Flood(mark, blocked, w, h) ==
    LET next == [n \in GridCells(w, h) |->
                    \/ mark[n]
                    \/ /\ n \notin blocked
                       /\ \E c \in { <<n[1] + 1, n[2]>>, <<n[1] - 1, n[2]>>,
                                     <<n[1], n[2] + 1>>, <<n[1], n[2] - 1>> } :
                             c \in DOMAIN mark /\ mark[c]]
    IN  IF next = mark THEN mark ELSE Flood(next, blocked, w, h)

\* the nodes a route leaving start can reach; start itself is not tested
ReachableFrom(start, blocked, w, h) ==
    LET mark == Flood([n \in GridCells(w, h) |-> n = start], blocked, w, h)
    IN  { n \in GridCells(w, h) : mark[n] }

RECURSIVE RouteNodes(_, _, _, _, _, _, _)
\* the node count of a shortest route to goal, n being that of the routes to
\* frontier and seen the nodes reached so far; 0 if there is no route
RouteNodes(frontier, seen, n, goal, blocked, w, h) ==
    LET next == UNION { FreeNeighbours(c, blocked, w, h) : c \in frontier } \ seen
    IN  IF goal \in frontier THEN n
        ELSE IF next = {} THEN 0
        ELSE RouteNodes(next, seen \cup next, n + 1, goal, blocked, w, h)

\* the least node count of the routes from start to goal whose nodes after
\* start are in bounds and not in blocked
ShortestRoute(start, goal, blocked, w, h) ==
    RouteNodes({start}, {start}, 1, goal, blocked, w, h)

C27_PathValidity ==
    (pf.done /\ pf.result.found) =>
        LET path == pf.result.path
        IN  /\ path # <<>>
            /\ path[1] = pf.start
            /\ path[Len(path)] = pf.goal
            /\ pf.start = pf.goal => path = <<pf.start>>
            /\ Contiguous(path)
            /\ \A k \in 2 .. Len(path) :
                  /\ path[k] \in GridCells(pf.width, pf.height)
                  /\ path[k] \notin pf.blocked

\* a path that goes round blocked cells from a blocked start
C27_Witness ==
    /\ pf.done /\ pf.result.found
    /\ pf.start \in pf.blocked
    /\ Len(pf.result.path) > heuristic(pf.start, pf.goal) + 1

\* C7: on an obstacle-free grid the path has |sx-gx| + |sy-gy| + 1 nodes and
\* each node differs from the previous one by one unit in one axis.
C7_ObstacleFreePath ==
    (pf.done /\ pf.blocked = {}) =>
        /\ pf.result.found
        /\ Len(pf.result.path) = heuristic(pf.start, pf.goal) + 1
        /\ Contiguous(pf.result.path)

C7_Witness ==
    /\ pf.done /\ pf.blocked = {}
    /\ pf.start[1] # pf.goal[1] /\ pf.start[2] # pf.goal[2]
    /\ Len(pf.result.path) = 4

\* C8 as stated: with goal not in blocked, the result is None exactly when no
\* route from start to goal avoiding blocked exists; a route avoiding blocked
\* has no blocked node, its first node (start) included.
C8_NoneIffNoRouteAvoidingBlocked ==
    (pf.done /\ pf.goal \notin pf.blocked) =>
        (pf.result.found <=>
            /\ pf.start \notin pf.blocked
            /\ pf.goal \in ReachableFrom(pf.start, pf.blocked, pf.width, pf.height))

\* C8 amended: with goal not in blocked, the result is None exactly when no
\* route from start to goal exists whose nodes after start are in bounds and
\* not in blocked; start itself is never tested against blocked.
C8_NoneIffNoRouteAfterStart ==
    (pf.done /\ pf.goal \notin pf.blocked) =>
        (pf.result.found <=>
            pf.goal \in ReachableFrom(pf.start, pf.blocked, pf.width, pf.height))

\* blocked encloses the goal: every in-bounds neighbour of the goal is blocked
C8_Witness ==
    /\ pf.done /\ pf.goal \notin pf.blocked /\ pf.start # pf.goal
    /\ FreeNeighbours(pf.goal, pf.blocked, pf.width, pf.height) = {}
    /\ pf.width > 1 /\ pf.height > 1
    /\ ~pf.result.found

(***************************************************************************)
(* Properties of the delivery task                                         *)
(***************************************************************************)
\* bot 1 has a delivery to d whose source holds one item, d being another,
\* empty storage cell, and has not picked up yet
DeliveryTo(d) ==
    /\ bots[1].current_task = "delivery"
    /\ bots[1].dest_cell = d
    /\ bots[1].source_cell # d
    /\ bots[1].carrying_item = <<>>
    /\ Len(cells[bots[1].source_cell]) = 1
    /\ CellType(d) = "storage" /\ cells[d] = <<>>

\* ... and bot 1 stands exactly on the centre of the source cell
AssignedOnSource(d) ==
    DeliveryTo(d) /\ bots[1].pos = Centre(bots[1].source_cell)

\* ... and bot 1 stands on the centre of another cell
AssignedOffSource(d) ==
    /\ DeliveryTo(d) /\ bots[1].goal_coords = bots[1].source_cell
    /\ bots[1].pos # Centre(bots[1].source_cell)

\* the one item of SpecLive lies alone in d, having come from another cell,
\* every other cell is empty and bot 1 is idle and carries nothing
Delivered(d) ==
    /\ Len(cells[d]) = 1 /\ cells[d][1].code # CodeOf(d, 1)
    /\ \A c \in Coords \ {d} : cells[c] = <<>>
    /\ bots[1].current_task = "None"
    /\ bots[1].carrying_item = <<>>

\* C1: a single bot standing exactly on the centre of the source cell that is
\* given the delivery eventually has emptied the source and put the item in
\* the destination, and is idle carrying nothing.
C1_RoundTripFromSource ==
    \A d \in Coords : AssignedOnSource(d) ~> Delivered(d)

\* the same round trip for a bot that starts on another cell
RoundTripFromElsewhere ==
    \A d \in Coords : AssignedOffSource(d) ~> Delivered(d)

(***************************************************************************)
(* Properties of the motion                                                *)
(***************************************************************************)
\* every move is along one axis, so math.hypot(dx, dy) is |dx| + |dy|
AxisAligned ==
    \A i \in DOMAIN bots :
        bots[i].target_path # <<>> =>
            \/ Centre(bots[i].target_path[1])[1] = bots[i].pos[1]
            \/ Centre(bots[i].target_path[1])[2] = bots[i].pos[2]

\* C11: the speed of every bot is at least 0 and at most
\* MAX_SPEED_CELLS_PER_SEC in every state.
C11_SpeedBounds ==
    \A i \in DOMAIN bots : 0 <= bots[i].speed /\ bots[i].speed <= MaxSpeed

\* a bot is part way up the acceleration ramp
C11_Witness ==
    \E i \in DOMAIN bots :
        /\ MinFinalSpeed < bots[i].speed /\ bots[i].speed < MaxSpeed
        /\ bots[i].pos # Centre(RoundPos(bots[i].pos))

\* the path bot i follows in its next update: its own, or the re-planned one
\* when it has a goal and no path
PathOnUpdate(i) ==
    IF bots[i].target_path = <<>> /\ bots[i].goal_coords # None
    THEN compute_path_to(bots, i, bots[i].goal_coords).target_path
    ELSE bots[i].target_path

\* p lies on the segment from a to b
OnSegment(p, a, b) ==
    /\ (b[1] - a[1]) * (p[2] - a[2]) = (b[2] - a[2]) * (p[1] - a[1])
    /\ Min(a[1], b[1]) <= p[1] /\ p[1] <= Max(a[1], b[1])
    /\ Min(a[2], b[2]) <= p[2] /\ p[2] <= Max(a[2], b[2])

\* C12: in every update the new position of the bot lies on the segment from
\* its previous position to the next waypoint, and it is exactly the waypoint
\* when speed * dt is at least the remaining distance; a bot without a path,
\* or whose next waypoint is occupied, stays where it is.
C12_NoOvershoot ==
    [][\A i \in DOMAIN bots :
         (turn = i /\ turn' # i) =>
            LET path == PathOnUpdate(i)
            IN  IF path = <<>> \/ path[1] \in Occupied(bots, i)
                THEN bots'[i].pos = bots[i].pos
                ELSE LET w == Centre(path[1])
                         distance == Abs(w[1] - bots[i].pos[1])
                                       + Abs(w[2] - bots[i].pos[2])
                     IN  /\ OnSegment(bots'[i].pos, bots[i].pos, w)
                         /\ bots'[i].speed * dt >= distance
                              => bots'[i].pos = w]_vars

\* a bot has just been set on a waypoint that is not its last, having come
\* from between two cell centres
C12_Witness ==
    /\ turn = 0 /\ Len(bots) = 2
    /\ bots[1].target_path # <<>> /\ bots[1].speed = MaxSpeed
    /\ bots[1].pos = Centre(RoundPos(bots[1].pos))
    /\ RoundPos(bots[1].pos) # bots[1].goal_coords

\* C23: in an update where the bot's next waypoint is the rounded position
\* of another bot, pos, speed and goal_coords of the bot and all cells are
\* unchanged, and target_path is what a fresh _compute_path_to(goal_coords)
\* gives: when not empty, a route to the goal off the other bots' cells.
C23_BlockedStep ==
    [][\A i \in DOMAIN bots :
         (/\ turn = i /\ turn' # i
          /\ PathOnUpdate(i) # <<>>
          /\ PathOnUpdate(i)[1] \in Occupied(bots, i))
         => /\ bots'[i].pos = bots[i].pos
            /\ bots'[i].speed = bots[i].speed
            /\ bots'[i].goal_coords = bots[i].goal_coords
            /\ cells' = cells
            /\ bots'[i].target_path
                  = compute_path_to(bots, i, bots[i].goal_coords).target_path
            /\ bots'[i].target_path # <<>> =>
                  /\ bots'[i].target_path[Len(bots'[i].target_path)]
                        = bots[i].goal_coords
                  /\ \A k \in DOMAIN bots'[i].target_path :
                        bots'[i].target_path[k]
                          \notin Blocked(bots, i, bots[i].goal_coords)]_vars

\* bot 1, under way between two cells, has just re-planned: its route now
\* starts at the cell it rounds to and goes on into the cell of bot 2
C23_Witness ==
    /\ turn = 2 /\ plans # {}
    /\ bots[1].speed > 0 /\ bots[1].pos # Centre(RoundPos(bots[1].pos))
    /\ Len(bots[1].target_path) >= 2
    /\ bots[1].target_path[1] = RoundPos(bots[1].pos)
    /\ bots[1].target_path[2] \in Occupied(bots, 1)

\* bot i comes to its update with a goal and no path
Lost(i) ==
    /\ turn = i /\ turn' # i
    /\ bots[i].target_path = <<>> /\ bots[i].goal_coords # None

\* there is a route for bot i from the cell it rounds to to its goal, off
\* the cells the other bots round to
RouteToGoal(i) ==
    bots[i].goal_coords \in
        ReachableFrom(RoundPos(bots[i].pos),
                      Blocked(bots, i, bots[i].goal_coords),
                      GRID_WIDTH, GRID_HEIGHT)

\* C24: an update of a bot with a goal whose replanning yields no path
\* leaves pos, speed, current_task, goal_coords, carrying_item and the cells
\* unchanged and target_path empty; every update of a bot with a goal and no
\* path plans again; and once there is a route, the bot not being on its
\* goal cell, that update gives the bot a path (which it follows at once).
C24_NoPathFound ==
    [][\A i \in DOMAIN bots :
         Lost(i) =>
            /\ plans' # {}
            /\ \A p \in plans' : /\ p.start = RoundPos(bots[i].pos)
                                  /\ p.goal = bots[i].goal_coords
            /\ (RoundPos(bots[i].pos) # bots[i].goal_coords /\ ~RouteToGoal(i)) =>
                  /\ bots'[i] = bots[i]
                  /\ bots'[i].target_path = <<>>
                  /\ cells' = cells
            /\ (RoundPos(bots[i].pos) # bots[i].goal_coords /\ RouteToGoal(i)) =>
                  \/ bots'[i].target_path # <<>>
                  \/ bots'[i].pos = Centre(bots[i].goal_coords)]_vars

\* bot 1 has just planned in vain: it has a goal elsewhere and no path
C24_Witness ==
    /\ turn = 2 /\ plans # {}
    /\ bots[1].goal_coords # None /\ bots[1].target_path = <<>>
    /\ RoundPos(bots[1].pos) # bots[1].goal_coords
    /\ bots[1].current_task = "resort"

\* C25: after _compute_path_to(goal) for a bot that is not on the goal cell,
\* in set_task_resort or in an update that leaves the bot where it is,
\* target_path is empty only if no route leads from the cell the bot rounds
\* to to the goal off the cells the other bots round to (the goal not
\* counted); the next waypoints of the other bots do not make the plan fail.
C25_GracefulFallback ==
    [][\A i \in DOMAIN bots :
         (/\ \/ /\ call'.op = "set_task_resort" /\ budget' < budget
                /\ call'.args[1] = i
             \/ /\ turn = i /\ turn' # i /\ plans' # {}
                /\ bots'[i].pos = bots[i].pos
                /\ bots'[i].goal_coords = bots[i].goal_coords
          /\ RoundPos(bots[i].pos) # bots'[i].goal_coords)
         => (bots'[i].target_path = <<>>
               <=> bots'[i].goal_coords \notin
                     ReachableFrom(RoundPos(bots[i].pos),
                                   Occupied(bots, i) \ {bots'[i].goal_coords},
                                   GRID_WIDTH, GRID_HEIGHT))]_vars

\* a bot has been sent to a cell: the search that counts the other bots'
\* next waypoints found nothing, and the bot has a path
C25_Witness ==
    /\ call.op = "set_task_resort"
    /\ bots[call.args[1]].target_path # <<>>
    /\ \E p \in plans : ~p.result.found
    /\ \E j \in DOMAIN bots : j # call.args[1] /\ bots[j].target_path # <<>>

\* C28: in an update where the next waypoint is exactly the bot's position,
\* the position does not change and the waypoint is removed from
\* target_path; when that empties the path, the arrival handling runs.
C28_ZeroDistanceWaypoint ==
    [][\A i \in DOMAIN bots :
         (/\ turn = i /\ turn' # i
          /\ bots[i].target_path # <<>>
          /\ Centre(bots[i].target_path[1]) = bots[i].pos)
         => /\ bots'[i].pos = bots[i].pos
            /\ IF Len(bots[i].target_path) = 1
               THEN /\ bots'[i].target_path = <<>>
                    /\ bots'[i].current_task = "None"
               ELSE bots'[i].target_path = Tail(bots[i].target_path)]_vars

\* bot 1 is on its final approach: one waypoint left, at positive distance
FinalApproach ==
    /\ Len(bots[1].target_path) = 1
    /\ bots[1].pos # Centre(bots[1].target_path[1])

\* C29: a bot with exactly one waypoint left at positive distance, updated
\* with a fixed dt > 0, has a speed of at least 0.5 after every tick and
\* snaps to the waypoint, which empties its path, after finitely many ticks,
\* whatever its speed was on entering the final approach.
C29_FinalApproachProgress ==
    /\ [][(turn = 1 /\ turn' # 1 /\ FinalApproach)
            => bots'[1].speed >= MinFinalSpeed]_vars
    /\ (FinalApproach ~> bots[1].target_path = <<>>)

\* C5: at the end of a tick the two bots never have the same rounded
\* coordinate.
C5_NoSharedRoundedCell ==
    (turn = 0 /\ Len(bots) = 2) => RoundPos(bots[1].pos) # RoundPos(bots[2].pos)

\* a tick has ended with both bots under way to the same next cell
C5_Witness ==
    /\ turn = 0 /\ Len(bots) = 2
    /\ bots[1].target_path # <<>> /\ bots[2].target_path # <<>>
    /\ bots[1].target_path[1] = bots[2].target_path[1]
    /\ bots[1].pos # Centre(RoundPos(bots[1].pos))
    /\ bots[2].pos # Centre(RoundPos(bots[2].pos))

\* C9: the first (dense) search of every (re)planning returns what find_path
\* returns for the same start and goal with the goal taken out of the dense
\* set.
C9_DenseSearchSparesGoal ==
    \A p \in plans :
        p.result = find_path(p.start, p.goal, p.blocked \ {p.goal},
                             GRID_WIDTH, GRID_HEIGHT)

(***************************************************************************)
(* Properties of the tasks                                                 *)
(***************************************************************************)
\* C13: a bot carries an item only while its task is a delivery with a
\* destination and it has picked up at the source, so that it is headed for
\* the destination; the carried item is in no cell's items.
C13_CarryingInvariant ==
    \A i \in DOMAIN bots :
        bots[i].carrying_item # <<>> =>
            /\ bots[i].current_task = "delivery"
            /\ bots[i].dest_cell # None
            /\ bots[i].goal_coords = bots[i].dest_cell
            /\ \A c \in Coords : bots[i].carrying_item[1] \notin Range(cells[c])

\* a bot is under way with an item
C13_Witness ==
    /\ turn = 0
    /\ \E i \in DOMAIN bots :
          /\ bots[i].carrying_item # <<>>
          /\ bots[i].target_path # <<>>
          /\ bots[i].pos # Centre(bots[i].source_cell)

\* bot i, on its way to fetch, reaches its source cell in this step
SourceArrival(i) ==
    /\ turn = i /\ turn' # i
    /\ bots[i].current_task = "delivery"
    /\ bots[i].carrying_item = <<>>
    /\ bots[i].source_cell # None
    /\ PathOnUpdate(i) = <<bots[i].source_cell>>
    /\ bots[i].pos # Centre(bots[i].source_cell)
    /\ bots'[i].pos = Centre(bots[i].source_cell)

\* items holds no item of the code the bot is after (any item, without one)
NothingToPick(items, code) ==
    \/ items = <<>>
    \/ code # 0 /\ \A k \in DOMAIN items : items[k].code # code

\* C21: when a delivery bot arrives at its source cell and the cell is empty
\* or holds no item of target_item_code, the cells are unchanged,
\* carrying_item stays None, current_task stays "delivery" and the bot plans
\* a path to dest_cell: goal_coords is the destination and target_path is
\* what _compute_path_to(dest_cell) gives.
C21_ArrivalAtEmptySource ==
    [][\A i \in DOMAIN bots :
         (/\ SourceArrival(i)
          /\ NothingToPick(cells[bots[i].source_cell], bots[i].target_item_code))
         => /\ cells' = cells
            /\ bots'[i].carrying_item = <<>>
            /\ bots'[i].current_task = "delivery"
            /\ bots'[i].goal_coords = bots[i].dest_cell
            /\ bots'[i].dest_cell = bots[i].dest_cell
            /\ bots'[i].target_path # <<>> =>
                  bots'[i].target_path[Len(bots'[i].target_path)] = bots[i].dest_cell
            /\ bots'[i].target_path = <<>> => bots[i].dest_cell = bots[i].source_cell]_vars

\* a bot stands empty-handed on a source cell that holds items, none of its
\* code, with a path to its destination
C21_Witness ==
    /\ turn = 0
    /\ bots[1].current_task = "delivery" /\ bots[1].carrying_item = <<>>
    /\ bots[1].pos = Centre(bots[1].source_cell)
    /\ bots[1].goal_coords = bots[1].dest_cell
    /\ bots[1].target_path # <<>>
    /\ bots[1].target_item_code # 0
    /\ cells[bots[1].source_cell] # <<>>

\* items without its k-th item, the others in their order
Without(items, k) ==
    [m \in 1 .. Len(items) - 1 |-> IF m < k THEN items[m] ELSE items[m + 1]]

\* C22: on arrival at the source with target_item_code set, the bot removes
\* exactly the matching item of smallest index, leaves the other items in
\* their order, and carries it; with target_item_code unset it removes and
\* carries the item at index 0.
C22_TargetedPickup ==
    [][\A i \in DOMAIN bots :
         SourceArrival(i) =>
            LET s == bots[i].source_cell
                code == bots[i].target_item_code
                matches == { k \in DOMAIN cells[s] : cells[s][k].code = code }
            IN  /\ (code # 0 /\ matches # {}) =>
                      \E k \in matches :
                         /\ \A m \in matches : k <= m
                         /\ cells' = [cells EXCEPT ![s] = Without(cells[s], k)]
                         /\ bots'[i].carrying_item = <<cells[s][k]>>
                /\ (code = 0 /\ cells[s] # <<>>) =>
                      /\ cells' = [cells EXCEPT ![s] = Tail(cells[s])]
                      /\ bots'[i].carrying_item = <<cells[s][1]>>]_vars

\* a bot carries the item of its code that lay under an item of another
\* code and over a second item of its code
C22_Witness ==
    /\ turn = 0 /\ bots[1].carrying_item # <<>>
    /\ bots[1].carrying_item[1].code = bots[1].target_item_code
    /\ bots[1].pos = Centre(bots[1].source_cell)
    /\ LET left == cells[bots[1].source_cell]
       IN  /\ Len(left) >= 2
           /\ left[1].code # bots[1].target_item_code
           /\ left[1].preference < bots[1].carrying_item[1].preference
           /\ \E k \in DOMAIN left : left[k].code = bots[1].target_item_code

\* bot b with nothing left of its task: only its place and speed
Forgotten(b) == [NewBot(<<0, 0>>) EXCEPT !.pos = b.pos, !.speed = b.speed]

\* what an update leaves behind, but for the bot's target_item_code
WithoutCode(outcomes) ==
    { [o EXCEPT !.bot = [@ EXCEPT !.target_item_code = 0]] : o \in outcomes }

\* C16: set_task_pickup and set_task_resort called in any state of the bot
\* set current_task, source_cell, dest_cell, carrying_item and goal_coords
\* (and set_task_pickup target_item_code) as for a fresh task, and the bot
\* afterwards is the one that the same call makes of a bot with no task at
\* the same place and speed, but for the target_item_code that
\* set_task_resort leaves; an update of a bot whose task is not a delivery
\* does not depend on target_item_code.
C16_ReassignOverwrites ==
    /\ [][/\ (call'.op = "set_task_pickup" /\ budget' < budget) =>
              LET s == call'.args[2]
                  d == call'.args[3]
                  code == call'.args[4]
              IN  /\ bots'[1].current_task = "delivery"
                  /\ bots'[1].source_cell = s /\ bots'[1].dest_cell = d
                  /\ bots'[1].target_item_code = code
                  /\ bots'[1].carrying_item = <<>>
                  /\ bots'[1].goal_coords = s
                  /\ bots'[1] = set_task_pickup(<<Forgotten(bots[1])>>, 1, s, d, code)
          /\ (call'.op = "set_task_resort" /\ budget' < budget) =>
              LET c == call'.args[2]
              IN  /\ bots'[1].current_task = "resort"
                  /\ bots'[1].source_cell = c /\ bots'[1].dest_cell = None
                  /\ bots'[1].carrying_item = <<>>
                  /\ bots'[1].goal_coords = c
                  /\ [bots'[1] EXCEPT !.target_item_code = 0]
                       = set_task_resort(<<Forgotten(bots[1])>>, 1, c)]_vars
    /\ [](\A d \in FineDts \cup CoarseDts :
            bots[1].current_task # "delivery" =>
               WithoutCode(UpdateOutcomes(bots, cells, 1, d))
                 = WithoutCode(UpdateOutcomes(
                       <<[bots[1] EXCEPT !.target_item_code = 0]>>, cells, 1, d)))

\* a bot that carried an item to a destination has been sent to resort
C16_Witness ==
    /\ budget = 0
    /\ bots[1].current_task = "resort"
    /\ bots[1].target_item_code # 0
    /\ bots[1].pos # Centre(RoundPos(bots[1].pos))
    /\ \A c \in Coords : cells[c] = <<>>

(***************************************************************************)
(* Properties of the stacks                                                *)
(***************************************************************************)
\* bot i arrives at the cell of its resort task in this step
ResortArrival(i) ==
    /\ bots[i].current_task = "resort"
    /\ bots'[i].current_task = "None"

\* the multiset of the items of a stack
ItemBag(items) ==
    [x \in Range(items) |-> Cardinality({ k \in DOMAIN items : items[k] = x })]

RECURSIVE SumLen(_, _)
SumLen(cs, S) ==
    IF S = {} THEN 0
    ELSE LET c == CHOOSE c \in S : TRUE IN Len(cs[c]) + SumLen(cs, S \ {c})

\* the number of items in the warehouse
TotalItems(cs) == SumLen(cs, DOMAIN cs)

\* the place of item x in a stack of distinct items
PlaceOf(items, x) == CHOOSE k \in DOMAIN items : items[k] = x

\* top to bottom no item is followed by one of greater preference
NonIncreasing(items) ==
    \A i \in DOMAIN items, j \in DOMAIN items :
        i < j => items[i].preference >= items[j].preference

\* C14: after sort_items_by_preference needs_resort() is false, the multiset
\* of items is the same, the order is non-increasing by preference from the
\* top, items of equal preference keep their relative order, and a second
\* call changes nothing.
C14_SortItemsByPreference ==
    [][\A c \in Coords :
         SortItems(c) =>
            /\ ~needs_resort(cells'[c])
            /\ ItemBag(cells'[c]) = ItemBag(cells[c])
            /\ NonIncreasing(cells'[c])
            /\ \A i \in DOMAIN cells[c], j \in DOMAIN cells[c] :
                  (i < j /\ cells[c][i].preference = cells[c][j].preference)
                  => PlaceOf(cells'[c], cells[c][i]) < PlaceOf(cells'[c], cells[c][j])
            /\ sort_items_by_preference(cells'[c]) = cells'[c]]_vars

\* a stack of three or more items with two of equal preference has been
\* sorted into another order
C14_Witness ==
    /\ budget = 1 /\ call.op = "sort_items_by_preference"
    /\ \E c \in {call.args[1]} :
          /\ Len(cells[c]) >= 3
          /\ \E i \in DOMAIN cells[c], j \in DOMAIN cells[c] :
                i < j /\ cells[c][i].preference = cells[c][j].preference
          /\ \E i \in DOMAIN cells[c] : cells[c][i].code # CodeOf(c, i)

\* C15: needs_resort() returns True exactly when some item has a smaller
\* preference than the item right below it; it returns False for stacks of
\* fewer than two items and leaves the stack as it is.
C15_NeedsResort ==
    [][\A c \in Coords :
         NeedsResort(c) =>
            /\ ret' = "True" <=>
                  \E i \in 1 .. Len(cells[c]) - 1 :
                      cells[c][i].preference < cells[c][i + 1].preference
            /\ ret' = "True" <=> ~NonIncreasing(cells[c])
            /\ Len(cells[c]) <= 1 => ret' = "False"
            /\ cells' = cells]_vars

\* needs_resort() has returned True for a stack whose top pair is in order
C15_Witness ==
    /\ ret = "True"
    /\ \E c \in Coords :
          /\ Len(cells[c]) >= 3
          /\ cells[c][1].preference >= cells[c][2].preference

\* C2: when the resort bot arrives and the storage cells with spare capacity
\* are all empty and at least as many as the target has items, the target's
\* items are afterwards in non-increasing preference order from the top.
C2_ResortOrdersTarget ==
    [][LET t == bots[1].source_cell
       IN  (/\ ResortArrival(1)
            /\ \A c \in EmptyStorageCandidates(cells, {t}) : cells[c] = <<>>
            /\ Cardinality(EmptyStorageCandidates(cells, {t})) >= Len(cells[t]))
           => ~needs_resort(cells'[t])]_vars

\* C3: when the resort bot arrives and at least as many storage cells with
\* spare capacity exist as the target has items, whatever they hold, the
\* target holds the same multiset of items afterwards.
C3_ResortKeepsTargetItems ==
    [][LET t == bots[1].source_cell
       IN  (/\ ResortArrival(1)
            /\ Cardinality(EmptyStorageCandidates(cells, {t})) >= Len(cells[t]))
           => ItemBag(cells'[t]) = ItemBag(cells[t])]_vars

\* C4: when the resort bot arrives and fewer storage cells with spare
\* capacity exist than the target has items, the target and the scratch
\* cells used hold as many items afterwards as before; the other cells are
\* not touched, so this is the number of items in the warehouse.
C4_ResortLosesNothing ==
    [][LET t == bots[1].source_cell
       IN  (/\ ResortArrival(1)
            /\ Cardinality(EmptyStorageCandidates(cells, {t})) < Len(cells[t]))
           => TotalItems(cells') = TotalItems(cells)]_vars

\* C17: when the resort bot arrives and no storage cell other than the target
\* has spare capacity, every cell keeps its items in their order, a target
\* that needed a resort still needs it, and the bot is idle afterwards.
C17_ResortWithoutSpareCapacity ==
    [][LET t == bots[1].source_cell
       IN  (/\ ResortArrival(1)
            /\ \A c \in Coords \ {t} :
                  CellType(c) = "storage" => Len(cells[c]) >= MAX_ITEMS_PER_CELL)
           => /\ cells' = cells
              /\ needs_resort(cells[t]) => needs_resort(cells'[t])
              /\ bots'[1].current_task = "None"
              /\ bots'[1].goal_coords = None]_vars

\* the bot has arrived at a cell that needs a resort, every other storage
\* cell being full, and is idle: no delivery ends in such a state, because a
\* pickup leaves spare capacity in its source
C17_Witness ==
    /\ budget = 0 /\ turn = 0
    /\ bots[1].current_task = "None" /\ bots[1].speed > 0
    /\ \E t \in Coords :
          /\ bots[1].pos = Centre(t)
          /\ needs_resort(cells[t])
          /\ \A c \in Coords \ {t} :
                CellType(c) = "storage" => Len(cells[c]) >= MAX_ITEMS_PER_CELL
          /\ \A c \in Coords \ {t} : CellType(c) # "storage" => cells[c] = <<>>

\* C18: find_empty_storage_cell(exclude) returns only a storage cell with
\* fewer than MAX_ITEMS_PER_CELL items that is not in exclude, returns None
\* exactly when there is no such cell, and leaves the grid as it is.
C18_FindEmptyStorageCell ==
    [][(call'.op = "find_empty_storage_cell" /\ budget' < budget) =>
          LET exclude == call'.args[1]
              Eligible(c) == /\ CellType(c) = "storage"
                             /\ Len(cells[c]) < MAX_ITEMS_PER_CELL
                             /\ c \notin exclude
          IN  /\ ret' = None <=> ~\E c \in Coords : Eligible(c)
              /\ ret' # None => ret'[1] \in Coords /\ Eligible(ret'[1])
              /\ cells' = cells]_vars

\* a cell has been returned while one storage cell was full and another,
\* with spare capacity, excluded
C18_Witness ==
    /\ call.op = "find_empty_storage_cell" /\ ret # None
    /\ \E c \in StorageCells : Len(cells[c]) = MAX_ITEMS_PER_CELL
    /\ \E c \in call.args[1] : Len(cells[c]) < MAX_ITEMS_PER_CELL

\* the inbound and storage cells that hold an item of the code
Holders(code) ==
    { c \in Coords : /\ CellType(c) \in {"inbound", "storage"}
                      /\ \E k \in DOMAIN cells[c] : cells[c][k].code = code }

\* C19: find_item(code) returns a cell and an item of that code in the
\* cell's items, the cell being inbound or storage, whenever there is one;
\* it never returns an outbound cell, and it returns (None, None) exactly
\* when no inbound or storage cell holds an item of the code.
C19_FindItem ==
    [][(call'.op = "find_item" /\ budget' < budget) =>
          LET code == call'.args[1]
          IN  /\ ret' = None <=> Holders(code) = {}
              /\ ret' # None =>
                    /\ ret'[1] \in Holders(code)
                    /\ CellType(ret'[1]) # "outbound"
                    /\ ret'[2].code = code
                    /\ ret'[2] \in Range(cells[ret'[1]])
              /\ cells' = cells]_vars

\* (None, None) has been returned for a code that only outbound cells hold
C19_Witness ==
    /\ call.op = "find_item" /\ ret = None
    /\ \E c \in Coords : \E k \in DOMAIN cells[c] : cells[c][k].code = call.args[1]

\* the item that was constructed
TheItem == ret[1]

\* C20: in every state reachable by constructing an Item, with or without
\* an explicit preference, and applying update_preference any number of
\* times with deltas in [-5, 5], 1 <= preference <= 100.
C20_PreferenceRange ==
    ret # None => TheItem.preference \in PreferenceMin .. PreferenceMax

\* what the code does keep: the range holds for an item constructed without
\* a preference or with one in the range, and after any update_preference
PreferenceRangeOnceClamped ==
    (/\ ret # None
     /\ \/ call.op = "update_preference"
        \/ call.args[2] = None
        \/ call.args[2][1] \in PreferenceMin .. PreferenceMax)
    => TheItem.preference \in PreferenceMin .. PreferenceMax

\* C6: no storage cell ever holds more than MAX_ITEMS_PER_CELL items, and an
\* add_item on a storage cell that holds MAX_ITEMS_PER_CELL items returns
\* False and leaves the stacks as they were.
C6_StackCapacity ==
    /\ [](\A c \in Coords :
            CellType(c) = "storage" => Len(cells[c]) <= MAX_ITEMS_PER_CELL)
    /\ [][\A c \in Coords, p \in 1 .. MaxPref :
            (/\ AddItem(c, Item(NewCode, p))
             /\ CellType(c) = "storage"
             /\ Len(cells[c]) = MAX_ITEMS_PER_CELL)
            => (ret' = "False" /\ cells' = cells)]_vars

\* add_item has just returned False on a full storage cell
C6_Witness ==
    /\ ret = "False"
    /\ \E c \in Coords :
          CellType(c) = "storage" /\ Len(cells[c]) = MAX_ITEMS_PER_CELL

(* C30: a successful add_item(i) puts i at index 0 above the items that    *)
(* were there, in their order; remove_item returns the item at index 0 and *)
(* removes it, and on an empty cell returns None and leaves it empty; so   *)
(* remove_item after a successful add_item(i) on the same cell returns i,  *)
(* and the stack is then the one before the add.                           *)
AddStep(c) == call'.op = "add_item" /\ call'.args[1] = c /\ budget' < budget

RemoveStep(c) == call'.op = "remove_item" /\ call'.args[1] = c /\ budget' < budget

C30_StackDiscipline ==
    /\ [][\A c \in Coords :
            /\ (AddStep(c) /\ ret' = <<TRUE>>)
                 => /\ cells'[c] # <<>>
                    /\ cells'[c][1] = call'.args[2]
                    /\ Tail(cells'[c]) = cells[c]
            /\ (RemoveStep(c) /\ cells[c] # <<>>)
                 => /\ ret' = <<cells[c][1]>>
                    /\ cells'[c] = Tail(cells[c])
            /\ (RemoveStep(c) /\ cells[c] = <<>>)
                 => /\ ret' = None
                    /\ cells'[c] = <<>>
            /\ (/\ RemoveStep(c)
                /\ call.op = "add_item" /\ call.args[1] = c /\ ret = <<TRUE>>)
                 => ret' = <<call.args[2]>>]_vars
    /\ [](\A c \in Coords, p \in 1 .. MaxPref :
            CanAdd(c, cells[c])
              => /\ removed_item(add_item(c, cells[c], Item(NewCode, p)))
                      = <<Item(NewCode, p)>>
                 /\ remove_item(add_item(c, cells[c], Item(NewCode, p))) = cells[c])

\* an item was added on a stack of two and the next call took it off again
C30_Witness ==
    /\ budget = 0
    /\ call.op = "remove_item"
    /\ ret # None /\ ret[1].code > Cardinality(Coords) * (MAX_ITEMS_PER_CELL + 1)
    /\ Len(cells[call.args[1]]) = 2

(* C31: right after a plan or a re-plan of bot i, no waypoint of its       *)
(* target_path other than the goal is the rounded position of another bot. *)
\* bot i has planned in this step: a task was set, or its update re-planned
PlansIn(i) ==
    \/ /\ call'.op \in {"set_task_pickup", "set_task_resort"}
       /\ call'.args[1] = i /\ budget' < budget
    \/ turn = i /\ turn' # i /\ plans' # {}

OffOtherBots(bs, i) ==
    \A k \in DOMAIN bs[i].target_path :
        bs[i].target_path[k] # bs[i].goal_coords
          => \A j \in DOMAIN bs \ {i} : bs[i].target_path[k] # RoundPos(bs[j].pos)

Carried(bs) == Cardinality({ i \in DOMAIN bs : bs[i].carrying_item # <<>> })

\* an item is put in or taken out from outside the bots in this step
FromOutside ==
    call'.op \in {"add_item", "remove_item"} /\ budget' < budget

C32_ItemConservation ==
    [][~FromOutside
         => TotalItems(cells') + Carried(bots')
              = TotalItems(cells) + Carried(bots)]_vars

(* C33: the resort arrival changes only the target cell; every other cell, *)
(* the storage cells used as scratch included, whatever they held, has the *)
(* same items in the same order afterwards.                                *)
C33_ResortFrame ==
    [][ResortArrival(1)
         => \A c \in Coords \ {bots[1].source_cell} : cells'[c] = cells[c]]_vars

(* C34: when a delivery bot completes its path to the destination cell,    *)
(* the arrival ends the task: current_task, source_cell, dest_cell and     *)
(* goal_coords become None and carrying_item is None, whether or not the   *)
(* pickup obtained an item; no delivery bot stays busy at its destination  *)
(* forever.                                                                *)
\* bot i, past its source, reaches its destination cell in this step
DestArrival(i) ==
    /\ turn = i /\ turn' # i
    /\ bots[i].current_task = "delivery"
    /\ bots[i].dest_cell # None
    /\ bots[i].dest_cell # bots[i].source_cell
    /\ bots[i].goal_coords = bots[i].dest_cell
    /\ PathOnUpdate(i) = <<bots[i].dest_cell>>
    /\ bots[i].pos # Centre(bots[i].dest_cell)
    /\ bots'[i].pos = Centre(bots[i].dest_cell)

\* bot i has a delivery and stands on its destination, another cell than
\* the source
BusyAtDest(i) ==
    /\ bots[i].current_task = "delivery"
    /\ bots[i].dest_cell # None
    /\ bots[i].dest_cell # bots[i].source_cell
    /\ bots[i].pos = Centre(bots[i].dest_cell)

C34_DeliveryEndsAtDestination ==
    /\ [][\A i \in DOMAIN bots :
            DestArrival(i)
              => /\ bots'[i].current_task = "None"
                 /\ bots'[i].source_cell = None
                 /\ bots'[i].dest_cell = None
                 /\ bots'[i].goal_coords = None
                 /\ bots'[i].carrying_item = <<>>]_vars
    /\ (BusyAtDest(1) ~> bots[1].current_task = "None")

\* the same, for the bots that arrive with an item
DeliveryWithItemEnds ==
    [][\A i \in DOMAIN bots :
         (DestArrival(i) /\ bots[i].carrying_item # <<>>)
           => /\ bots'[i].current_task = "None"
              /\ bots'[i].source_cell = None
              /\ bots'[i].dest_cell = None
              /\ bots'[i].goal_coords = None
              /\ bots'[i].carrying_item = <<>>]_vars

(* C35: a delivery bot removes an item from its source cell only in a tick *)
(* in which its position is the source cell's, and at most once per task:  *)
(* having picked up, it carries the item until the drop-off ends the task. *)
\* bot i takes an item in its update of this step
Picks(i) ==
    /\ turn = i /\ turn' # i
    /\ bots[i].current_task = "delivery"
    /\ bots[i].carrying_item = <<>>
    /\ bots'[i].carrying_item # <<>>

C35_PickupOnlyAtSource ==
    [][\A i \in DOMAIN bots :
         /\ Picks(i)
              => /\ bots'[i].pos = Centre(bots[i].source_cell)
                 /\ cells'[bots[i].source_cell]
                      = Without(cells[bots[i].source_cell],
                                PickIndex(cells[bots[i].source_cell],
                                          bots[i].target_item_code))
         /\ (/\ turn = i /\ turn' # i
             /\ bots[i].current_task = "delivery"
             /\ bots[i].carrying_item # <<>>)
              => \/ bots'[i].carrying_item = bots[i].carrying_item
                 \/ bots'[i].current_task = "None"]_vars

(* C36: two bots on distinct cells, the first with a delivery from a       *)
(* non-empty source to a destination with spare capacity, the second idle  *)
(* and stationary on any cell, the source and the destination included:    *)
(* the first bot eventually completes the delivery and is idle again.      *)
\* bot 1 has just been given such a delivery and bot 2 has no task
DeliveryPastIdle ==
    /\ Len(bots) = 2
    /\ bots[1].current_task = "delivery"
    /\ bots[1].carrying_item = <<>>
    /\ bots[1].goal_coords = bots[1].source_cell
    /\ cells[bots[1].source_cell] # <<>>
    /\ CanAdd(bots[1].dest_cell, cells[bots[1].dest_cell])
    /\ bots[2].current_task = "None"

\* the item lies in the destination and bot 1 is idle
DeliveryDone ==
    /\ bots[1].current_task = "None"
    /\ bots[1].carrying_item = <<>>
    /\ \E c \in Coords : cells[c] # <<>> /\ cells[c][1].code # CodeOf(c, 1)

C36_ProgressPastIdleBots == DeliveryPastIdle ~> DeliveryDone

\* the same when bot 1 starts off the source, the destination is another
\* cell, and bot 2 is parked on neither
ProgressPastBotElsewhere ==
    (/\ DeliveryPastIdle
     /\ bots[1].source_cell # bots[1].dest_cell
     /\ RoundPos(bots[1].pos) # bots[1].source_cell
     /\ RoundPos(bots[2].pos) \notin {bots[1].source_cell, bots[1].dest_cell})
    ~> DeliveryDone

\* the same with bot 2 parked on the source or on the destination
ProgressPastBotOnGoal ==
    (/\ DeliveryPastIdle
     /\ bots[1].source_cell # bots[1].dest_cell
     /\ RoundPos(bots[1].pos) # bots[1].source_cell
     /\ RoundPos(bots[2].pos) \in {bots[1].source_cell, bots[1].dest_cell})
    ~> DeliveryDone

(* C37: in every reachable state a bot with current_task None has          *)
(* goal_coords None, an empty target_path and carrying_item None, and an   *)
(* update of such a bot changes neither its position nor any cell.         *)
IdleBot(b) == b.current_task = "None"

C37_IdleInvariant ==
    /\ [](\A i \in DOMAIN bots :
            IdleBot(bots[i])
              => /\ bots[i].goal_coords = None
                 /\ bots[i].target_path = <<>>
                 /\ bots[i].carrying_item = <<>>)
    /\ [][\A i \in DOMAIN bots :
            (turn = i /\ turn' # i /\ IdleBot(bots[i]))
              => /\ bots'[i].pos = bots[i].pos
                 /\ cells' = cells]_vars

\* bot 1 has completed its delivery in this tick and is idle, and bot 2,
\* idle from the start, has been updated after it
C37_Witness ==
    /\ Len(bots) = 2 /\ turn = 0 /\ budget = 0
    /\ IdleBot(bots[1]) /\ bots[1].speed > 0
    /\ IdleBot(bots[2])
    /\ \E c \in Coords : cells[c] # <<>> /\ cells[c][1].code # CodeOf(c, 1)

(* C38: for a grid of any width and height, every waypoint a plan or a     *)
(* re-plan puts in target_path is a cell of the bot's grid, and a goal     *)
(* that is a cell of the grid and can be reached in it is planned to.      *)
\* grid.width and grid.height of the grid the cells belong to
WidthOf(cs) == Cardinality({ c[1] : c \in DOMAIN cs })

HeightOf(cs) == Cardinality({ c[2] : c \in DOMAIN cs })

C38_WaypointsInsideGrid ==
    [][\A i \in DOMAIN bots :
         PlansIn(i)
           => /\ \A k \in DOMAIN bots'[i].target_path :
                    bots'[i].target_path[k] \in DOMAIN cells
              /\ (/\ bots'[i].goal_coords \in DOMAIN cells
                  /\ bots'[i].goal_coords # RoundPos(bots'[i].pos)
                  /\ bots'[i].goal_coords \in
                        ReachableFrom(RoundPos(bots'[i].pos),
                                      Blocked(bots', i, bots'[i].goal_coords),
                                      WidthOf(cells), HeightOf(cells)))
                   => bots'[i].target_path # <<>>]_vars

\* the same on the grids of the configured size
WaypointsInsideConfiguredGrid ==
    [][(WidthOf(cells) = GRID_WIDTH /\ HeightOf(cells) = GRID_HEIGHT)
         => \A i \in DOMAIN bots :
              PlansIn(i)
                => /\ \A k \in DOMAIN bots'[i].target_path :
                         bots'[i].target_path[k] \in DOMAIN cells
                   /\ (/\ bots'[i].goal_coords \in DOMAIN cells
                       /\ bots'[i].goal_coords # RoundPos(bots'[i].pos)
                       /\ bots'[i].goal_coords \in
                             ReachableFrom(RoundPos(bots'[i].pos),
                                           Blocked(bots', i, bots'[i].goal_coords),
                                           WidthOf(cells), HeightOf(cells)))
                        => bots'[i].target_path # <<>>]_vars

=============================================================================
